---- MODULE Spec2Model ----
(***************************************************************************)
(* Model of the S3-backed cache action: uploadToS3 (src/src/s3Client.ts),  *)
(* restoreImpl (src/src/restoreImpl.ts) and saveImpl with its utilities    *)
(* (src/unnamed/part_000).                                                 *)
(*                                                                         *)
(* Strings that the program takes apart or puts together (cache keys,      *)
(* paths, storage keys) are sequences of one-character strings, so that    *)
(* path.basename and the template literals are computed, not assumed.      *)
(* A compressed payload is known by its size in bytes; a chunk of it is    *)
(* the byte range <<offset, length>>.                                      *)
(*                                                                         *)
(* Specifications:                                                         *)
(*   SpecUpload     one call of uploadToS3, any payload size               *)
(*   SpecRestore    one run of restoreImpl against any store               *)
(*   SpecRestoreByPath  one run of the restoreImpl of src/unnamed/part_000 *)
(*   SpecSave       one run of saveImpl over any workspace                 *)
(*   Spec           one job: restoreImpl, then saveImpl, shared state      *)
(*   SpecRoundTrip  an earlier job's saveImpl, then a later restoreImpl    *)
(*   SpecKeys       the storage-key derivations applied to two pairs       *)
(*   SpecTwoRuns    two runs of restoreImpl, to compare what they signal   *)
(*   SpecMatch      isExactKeyMatch applied to two keys                    *)
(*   SpecUnpack     one file or directory packed by uploadToS3 and fetched *)
(*                  back by downloadFromS3, any file content               *)
(***************************************************************************)
EXTENDS Integers, Sequences, FiniteSets, TLC

VARIABLES
    store,      \* object store: storage key -> the object it holds, [kind, gzSize]
    disk,       \* local files: path -> [kind, gzSize, from]
    requests,   \* every object-store request sent so far, in order, with its outcome
    env,        \* process.env: for each required setting whether it is set, and `event`, whether the event is tied to a ref
    inputs,     \* the action's inputs: [key, restoreKeys, paths]
    state,      \* state provider slots: [CachePrimaryKey, CacheMatchedKey]
    pc,         \* what is running: "upload", "restore", "save", "done"
    r,          \* locals of restoreImpl
    s,          \* locals of saveImpl
    up,         \* locals of uploadToS3
    out,        \* what the run has signalled: [cacheHit, failed, exitCode]
    fn          \* a helper function applied on its own: [op, x, y, result]

vars == <<store, disk, requests, env, inputs, state, pc, r, s, up, out, fn>>

----------------------------------------------------------------------------
(* Bounds of the model *)

\* longest list of requested paths
MaxPaths == 2
\* longest list of requested paths of a job that both restores and saves
MaxJobPaths == 1
\* longest restore-keys input (its first entry is dropped by restoreImpl)
MaxRestoreKeys == 2
\* largest compressed payload, in chunks
MaxChunks == 2
\* longest key that isExactKeyMatch is applied to on its own
MaxKeyLen == 2

----------------------------------------------------------------------------
(* Strings *)

\* the empty string; getState of an unset slot and an undefined cacheKey are both falsy
NoKey == <<>>

Keys == { <<"v", "1">>, <<"v", "2">> }

PathSet == { <<"d", "/">>, <<"e", "/", "a">> }

RECURSIVE StripSlashes(_)
\* the path without its trailing "/" characters
StripSlashes(p) ==
    IF Len(p) > 0 /\ p[Len(p)] = "/" THEN StripSlashes(SubSeq(p, 1, Len(p) - 1)) ELSE p

RECURSIVE AfterLastSlash(_)
\* the part of p after its last "/"
AfterLastSlash(p) ==
    IF \E i \in 1..Len(p) : p[i] = "/"
    THEN AfterLastSlash(SubSeq(p, 2, Len(p)))
    ELSE p

\* path.basename (POSIX): last portion of the path, trailing separators ignored
basename(p) == AfterLastSlash(StripSlashes(p))

\* `${key}/${path.basename(cachePath)}`
RestoreS3Key(key, cachePath) == key \o <<"/">> \o basename(cachePath)

\* `${primaryKey}:${cachePath}`
SaveS3Key(primaryKey, cachePath) == primaryKey \o <<":">> \o cachePath

----------------------------------------------------------------------------
(* Local files and the object store *)

\* const chunkSize = 5 * 1024 * 1024
chunkSize == 5 * 1024 * 1024

\* compressed sizes around every multiple of the chunk size up to MaxChunks chunks
Sizes ==
    { n \in UNION { {k * chunkSize - 1, k * chunkSize, k * chunkSize + 1} : k \in 0..MaxChunks } :
        n >= 1 /\ n <= MaxChunks * chunkSize + 1 }

Missing == [kind |-> "missing", gzSize |-> 0, from |-> NoKey]

\* a file or directory on disk, with the size its compressed payload will have
FileInfos == [kind : {"file", "dir"}, gzSize : Sizes, from : {NoKey}]

\* an object that holds the whole compressed payload of a file or directory:
\* what it was packed from, its size, and its bytes as ranges of that payload
Object(info) == [kind |-> info.kind, gzSize |-> info.gzSize, bytes |-> <<<<0, info.gzSize>>>>]

RECURSIVE Joined(_)
\* byte ranges <<offset, length>> put one after the other, two neighbours that
\* continue each other written as one range
Joined(ranges) ==
    IF Len(ranges) <= 1
    THEN ranges
    ELSE LET first == Head(ranges)
             rest == Joined(Tail(ranges))
         IN  IF first[1] + first[2] = rest[1][1]
             THEN <<<<first[1], first[2] + rest[1][2]>>>> \o Tail(rest)
             ELSE <<first>> \o rest

RECURSIVE TotalLength(_)
\* the number of bytes in a sequence of byte ranges
TotalLength(ranges) == IF Len(ranges) = 0 THEN 0 ELSE Head(ranges)[2] + TotalLength(Tail(ranges))

\* the object the store makes of the bytes it received
Received(kind, ranges) ==
    [kind |-> kind, gzSize |-> TotalLength(ranges), bytes |-> Joined(ranges)]

EmptyStore == [k \in {} |-> Object(Missing)]

\* the store after an object is written under a key (a later write replaces an earlier one)
PutInto(st, key, obj) == [k \in (DOMAIN st) \cup {key} |-> IF k = key THEN obj ELSE st[k]]

\* one logged request of uploadToS3; unused fields hold 0 or <<>>
Req(op, key, uploadId, partNumber, body, parts, ok) ==
    [op |-> op, key |-> key, uploadId |-> uploadId, partNumber |-> partNumber,
     body |-> body, parts |-> parts, ok |-> ok,
     err |-> IF ok THEN "none" ELSE "error", tag |-> <<0, 0>>]

\* one logged request of restoreImpl: tag is <<candidate index, path index>>
RestoreReq(op, key, tag, err) ==
    [op |-> op, key |-> key, uploadId |-> 0, partNumber |-> 0,
     body |-> <<0, 0>>, parts |-> <<>>, ok |-> (err = "none"),
     err |-> err, tag |-> tag]

\* the upload id S3 hands out: one never used before
FreshUploadId == 1 + Cardinality({ i \in 1..Len(requests) : requests[i].op = "CreateMultipartUpload" })

\* the integrity token S3 returns for a part: determined by the part's bytes
ETagOf(body) == body

\* the bytes the store holds for a part of a session: the body of the last
\* UploadPart request with that upload id and part number that succeeded
PartBody(log, uploadId, partNumber) ==
    LET sent == { i \in 1..Len(log) : /\ log[i].op = "UploadPart"
                                       /\ log[i].ok
                                       /\ log[i].uploadId = uploadId
                                       /\ log[i].partNumber = partNumber }
    IN  log[CHOOSE i \in sent : \A j \in sent : j <= i].body

\* what CompleteMultipartUpload assembles: the bodies of the listed parts, in the
\* order of the list
Assembled(log, uploadId, parts) ==
    [k \in 1..Len(parts) |-> PartBody(log, uploadId, parts[k].PartNumber)]

----------------------------------------------------------------------------
(* The environment *)

\* const requiredEnvVars = [...]
requiredEnvVars == {"AWS_ACCESS_KEY_ID", "AWS_SECRET_ACCESS_KEY", "AWS_REGION", "BP_CACHE_S3_BUCKET"}

\* an environment with every required setting set and the event tied to a ref
FullEnv == [v \in requiredEnvVars \cup {"event"} |-> TRUE]

validateAwsCredentialsNoBucket(e) ==
    \A v \in requiredEnvVars \ {"BP_CACHE_S3_BUCKET"} : e[v]

\* validateAwsCredentials(): no required setting is missing
validateAwsCredentials(e) ==
    \A v \in requiredEnvVars : e[v]

\* isCacheFeatureAvailable()
isCacheFeatureAvailable(e) == validateAwsCredentials(e)

\* isValidEvent(): RefKey in process.env && Boolean(process.env[RefKey])
isValidEvent(e) == e.event

----------------------------------------------------------------------------
(* The state before anything has run *)

NoInputs == [key |-> NoKey, restoreKeys |-> <<>>, paths |-> <<>>]

NoState == [CachePrimaryKey |-> NoKey, CacheMatchedKey |-> NoKey]

\* found: the flag of the restoreImpl of src/unnamed/part_000 (let found = true);
\* caught: the last error the catch block of the candidate loop received;
\* returned: "none" until restoreImpl returns, then the value it returned
RIdle ==
    [pc |-> "idle", primaryKey |-> NoKey, allKeys |-> <<>>, lookupOnly |-> FALSE,
     failOnCacheMiss |-> FALSE, earlyExit |-> FALSE, idx |-> 0, pathIdx |-> 0,
     s3Key |-> NoKey, cacheKey |-> NoKey, caught |-> "none", returned |-> "none",
     found |-> TRUE]

\* outcomes: for each uploadToS3 call that has ended, its storage key and whether it returned
SIdle ==
    [pc |-> "idle", primaryKey |-> NoKey, pathIdx |-> 0, success |-> TRUE, cacheKey |-> NoKey,
     outcomes |-> <<>>]

\* nothing signalled yet: no cache-hit output, job not failed, process not exited
NoOut == [cacheHit |-> "unset", failed |-> FALSE, exitCode |-> "none"]

\* no helper function is being looked at on its own
FnIdle == [op |-> "none", x |-> <<>>, y |-> <<>>, result |-> <<>>]

----------------------------------------------------------------------------
(* uploadToS3 *)

UpIdle ==
    [pc |-> "idle", key |-> NoKey, filePath |-> NoKey, fileSize |-> 0, uploadId |-> 0,
     parts |-> <<>>, partNumber |-> 0, offset |-> 0, error |-> "none", thrown |-> "none"]

\* the call uploadToS3(bucketName, key, filePath)
UpCall(key, filePath) == [UpIdle EXCEPT !.pc = "pack", !.key = key, !.filePath = filePath]

UseSimpleUploadStrict(fileSize) == fileSize < chunkSize

\* if (fileSize <= chunkSize)
UseSimpleUpload(fileSize) == fileSize <= chunkSize

NextPartNumberSkip(partNumber) == partNumber + 2

\* partNumber++
NextPartNumber(partNumber) == partNumber + 1

OnTryErrorNoAbort(u, err) == [u EXCEPT !.pc = "threw", !.thrown = err]

\* catch (error) { await client.send(new AbortMultipartUploadCommand(...)); ... }
OnTryError(u, err) == [u EXCEPT !.pc = "abort", !.error = err]

\* the await of the abort inside the catch block: a rejected abort leaves the
\* catch block with the abort's error and `throw error` is not reached
AfterAbort(u, abortOk) ==
    [u EXCEPT !.pc = "threw", !.thrown = IF abortOk THEN u.error ELSE "AbortError"]

\* fs.createReadStream(compressedFilePath) as a request body: the file from its first byte to its last
WholeFile(fileSize) == <<0, fileSize>>

ChunkAtFromStart(offset, fileSize) ==
    <<0, IF fileSize - offset < chunkSize THEN fileSize - offset ELSE chunkSize>>

\* the chunk the read stream yields at an offset: highWaterMark bytes, or what is left
ChunkAt(offset, fileSize) ==
    <<offset, IF fileSize - offset < chunkSize THEN fileSize - offset ELSE chunkSize>>

\* statSync, compressDirectory / compressData, statSync(compressed).size, strategy choice
UploadPack ==
    /\ up.pc = "pack"
    /\ \/ /\ disk[up.filePath].kind = "missing"
          /\ up' = [up EXCEPT !.pc = "threw", !.thrown = "ENOENT"]
       \/ /\ disk[up.filePath].kind # "missing"
          /\ up' = [up EXCEPT !.pc = "threw", !.thrown = "CompressError"]
       \/ /\ disk[up.filePath].kind # "missing"
          /\ up' = [up EXCEPT !.fileSize = disk[up.filePath].gzSize,
                              !.pc = IF UseSimpleUpload(disk[up.filePath].gzSize)
                                     THEN "put" ELSE "create"]
    /\ UNCHANGED <<store, disk, requests, env, inputs, state, pc, r, s, out, fn>>

\* await client.send(new PutObjectCommand(...))
UploadPut ==
    /\ up.pc = "put"
    /\ \E ok \in BOOLEAN :
        /\ requests' = Append(requests, Req("PutObject", up.key, 0, 0, WholeFile(up.fileSize), <<>>, ok))
        /\ store' = IF ok THEN PutInto(store, up.key,
                                       Received(disk[up.filePath].kind, <<WholeFile(up.fileSize)>>))
                         ELSE store
        /\ up' = IF ok THEN [up EXCEPT !.pc = "returned"]
                       ELSE [up EXCEPT !.pc = "threw", !.thrown = "PutError"]
    /\ UNCHANGED <<disk, env, inputs, state, pc, r, s, out, fn>>

\* await client.send(new CreateMultipartUploadCommand(...)), outside the try block
UploadCreate ==
    /\ up.pc = "create"
    /\ \E ok \in BOOLEAN :
        /\ requests' = Append(requests,
              Req("CreateMultipartUpload", up.key, IF ok THEN FreshUploadId ELSE 0, 0, <<0, 0>>, <<>>, ok))
        /\ up' = IF ok THEN [up EXCEPT !.pc = "part", !.uploadId = FreshUploadId,
                                       !.parts = <<>>, !.partNumber = 1, !.offset = 0]
                       ELSE [up EXCEPT !.pc = "threw", !.thrown = "CreateError"]
    /\ UNCHANGED <<store, disk, env, inputs, state, pc, r, s, out, fn>>

\* one turn of `for await (const chunk of fileStream)`: send the part, record its ETag
UploadSendPart ==
    /\ up.pc = "part"
    /\ up.offset < up.fileSize
    /\ LET chunk == ChunkAt(up.offset, up.fileSize) IN
       \E ok \in BOOLEAN :
        /\ requests' = Append(requests,
              Req("UploadPart", up.key, up.uploadId, up.partNumber, chunk, <<>>, ok))
        /\ up' = IF ok
                 THEN [up EXCEPT !.parts = Append(up.parts,
                                     [ETag |-> ETagOf(chunk), PartNumber |-> up.partNumber]),
                                 !.partNumber = NextPartNumber(up.partNumber),
                                 !.offset = up.offset + chunk[2]]
                 ELSE OnTryError(up, "UploadPartError")
    /\ UNCHANGED <<store, disk, env, inputs, state, pc, r, s, out, fn>>

\* the read stream fails while the loop waits for the next chunk
UploadReadError ==
    /\ up.pc = "part"
    /\ up.offset < up.fileSize
    /\ up' = OnTryError(up, "ReadError")
    /\ UNCHANGED <<store, disk, requests, env, inputs, state, pc, r, s, out, fn>>

\* await client.send(new CompleteMultipartUploadCommand({... Parts: parts}))
UploadComplete ==
    /\ up.pc = "part"
    /\ up.offset >= up.fileSize
    /\ \E ok \in BOOLEAN :
        /\ requests' = Append(requests,
              Req("CompleteMultipartUpload", up.key, up.uploadId, 0, <<0, 0>>, up.parts, ok))
        /\ store' = IF ok THEN PutInto(store, up.key,
                                       Received(disk[up.filePath].kind,
                                                Assembled(requests, up.uploadId, up.parts)))
                         ELSE store
        /\ up' = IF ok THEN [up EXCEPT !.pc = "returned"]
                       ELSE OnTryError(up, "CompleteError")
    /\ UNCHANGED <<disk, env, inputs, state, pc, r, s, out, fn>>

\* the catch block: send AbortMultipartUpload, then rethrow
UploadAbort ==
    /\ up.pc = "abort"
    /\ \E ok \in BOOLEAN :
        /\ requests' = Append(requests,
              Req("AbortMultipartUpload", up.key, up.uploadId, 0, <<0, 0>>, <<>>, ok))
        /\ up' = AfterAbort(up, ok)
    /\ UNCHANGED <<store, disk, env, inputs, state, pc, r, s, out, fn>>

UploadStep ==
    \/ UploadPack
    \/ UploadPut
    \/ UploadCreate
    \/ UploadSendPart
    \/ UploadReadError
    \/ UploadComplete
    \/ UploadAbort

----------------------------------------------------------------------------
(* restoreImpl (src/src/restoreImpl.ts) *)

\* Array.prototype.slice(1): the list without its first entry
Slice1Whole(list) == list

Slice1(list) == IF Len(list) = 0 THEN <<>> ELSE Tail(list)

\* stateProvider.getState(State.CachePrimaryKey) || core.getInput(Inputs.Key)
PrimaryKeyOf(st, inp) == IF st.CachePrimaryKey # NoKey THEN st.CachePrimaryKey ELSE inp.key

NextCandidateGiveUp(rr) == [rr EXCEPT !.pc = "end"]

\* the catch block of the candidate loop: log, go on with the next key of allKeys
NextCandidate(rr) ==
    IF rr.idx < Len(rr.allKeys)
    THEN [rr EXCEPT !.idx = rr.idx + 1, !.pathIdx = 1]
    ELSE [rr EXCEPT !.pc = "end"]

AfterAllPathsRestoredNoBreak(rr, s3Key) ==
    NextCandidate([rr EXCEPT !.cacheKey = s3Key, !.s3Key = s3Key])

\* cacheKey = s3Key; break   (after the loop over cachePaths)
AfterAllPathsRestored(rr, s3Key) == [rr EXCEPT !.cacheKey = s3Key, !.s3Key = s3Key, !.pc = "end"]

\* HeadObject answered: cacheKey = s3Key; break
AfterHeadFound(rr, s3Key) == [rr EXCEPT !.cacheKey = s3Key, !.s3Key = s3Key, !.pc = "end"]

\* HeadObject threw NotFound: the inner catch swallows it, and the statements after
\* the inner try run: cacheKey = s3Key; break
AfterHeadNotFound(rr, s3Key) == [rr EXCEPT !.cacheKey = s3Key, !.s3Key = s3Key, !.pc = "end"]

\* cacheKey === `${primaryKey}/${path.basename(cachePaths[0])}`
IsExactS3KeyMatch(cacheKey, primaryKey, cachePaths) == cacheKey = RestoreS3Key(primaryKey, cachePaths[1])

MissOutcomeNeverFatal(failOnCacheMiss, earlyExit) ==
    [cacheHit |-> "false", failed |-> FALSE, exitCode |-> "none"]

\* if (!cacheKey): setOutput(CacheHit, "false"); with failOnCacheMiss the throw lands
\* in the outer catch: core.setFailed, and process.exit(1) under earlyExit
MissOutcome(failOnCacheMiss, earlyExit) ==
    [cacheHit |-> "false", failed |-> failOnCacheMiss,
     exitCode |-> IF failOnCacheMiss /\ earlyExit THEN "1" ELSE "none"]

\* availability and event checks, primary key, candidate list, flags
RestoreBegin ==
    /\ pc = "restore"
    /\ r.pc = "begin"
    /\ \/ /\ ~isCacheFeatureAvailable(env)
          /\ out' = [out EXCEPT !.cacheHit = "false"]
          /\ r' = [r EXCEPT !.pc = "done", !.returned = "undefined"]
          /\ UNCHANGED state
       \/ /\ isCacheFeatureAvailable(env)
          /\ ~isValidEvent(env)
          /\ r' = [r EXCEPT !.pc = "done", !.returned = "undefined"]
          /\ UNCHANGED <<state, out>>
       \/ /\ isCacheFeatureAvailable(env)
          /\ isValidEvent(env)
          /\ \E lookupOnly \in BOOLEAN :
              LET primaryKey == PrimaryKeyOf(state, inputs) IN
              /\ state' = [state EXCEPT !.CachePrimaryKey = primaryKey]
              /\ r' = [r EXCEPT !.pc = "loop", !.primaryKey = primaryKey,
                                !.allKeys = <<primaryKey>> \o Slice1(inputs.restoreKeys),
                                !.lookupOnly = lookupOnly, !.idx = 1, !.pathIdx = 1]
          /\ UNCHANGED out
    /\ UNCHANGED <<store, disk, requests, env, inputs, pc, s, up, fn>>

\* lookupOnly: probe `${key}/${basename(cachePaths[0])}` with HeadObject
RestoreHead ==
    /\ pc = "restore"
    /\ r.pc = "loop"
    /\ r.lookupOnly
    /\ LET s3Key == RestoreS3Key(r.allKeys[r.idx], inputs.paths[1]) IN
       \E res \in (IF s3Key \in DOMAIN store THEN {"none", "error"} ELSE {"NotFound", "error"}) :
        /\ requests' = Append(requests, RestoreReq("HeadObject", s3Key, <<r.idx, 1>>, res))
        /\ r' = CASE res = "none" -> AfterHeadFound(r, s3Key)
                  [] res = "NotFound" -> AfterHeadNotFound(r, s3Key)
                  [] OTHER -> NextCandidate([r EXCEPT !.s3Key = s3Key, !.caught = "HeadError"])
    /\ UNCHANGED <<store, disk, env, inputs, state, pc, s, up, out, fn>>

\* how a call of downloadFromS3 can end: "none" (returned), or the failure inside
\* its try block: the GetObject request fails ("NotFound" when the key holds
\* nothing, "error" otherwise), the Body is not a Readable, the gunzip pipeline
\* fails, or, for an object that unzips to a tar archive, the extraction fails
DownloadOutcomes(st, s3Key) ==
    IF s3Key \notin DOMAIN st
    THEN {"NotFound"}
    ELSE {"none", "error", "InvalidBody", "GunzipError"}
            \cup (IF st[s3Key].kind = "dir" THEN {"UnpackError"} ELSE {})

\* catch (error) { throw new Error(`Failed to download file from S3: ${error}`) }
DownloadThrows(res) == IF res = "none" THEN "none" ELSE "DownloadFailed"

\* the destination path after the call: the restored content; or, when the failure
\* came after fs.createWriteStream(destinationPath) had opened the file, whatever
\* part of the object's content got there; or what it was before
WrittenBy(old, obj, s3Key, res) ==
    CASE res = "none" -> [kind |-> obj.kind, gzSize |-> obj.gzSize, from |-> s3Key]
      [] res \in {"GunzipError", "UnpackError"} -> [kind |-> "partial", gzSize |-> 0, from |-> s3Key]
      [] OTHER -> old

\* one turn of the loop over cachePaths: downloadFromS3(bucketName, s3Key, cachePath)
RestoreDownload ==
    /\ pc = "restore"
    /\ r.pc = "loop"
    /\ ~r.lookupOnly
    /\ LET cachePath == inputs.paths[r.pathIdx]
           s3Key == RestoreS3Key(r.allKeys[r.idx], cachePath)
       IN
       \E res \in DownloadOutcomes(store, s3Key) :
        /\ requests' = Append(requests, RestoreReq("GetObject", s3Key, <<r.idx, r.pathIdx>>, res))
        /\ disk' = IF s3Key \in DOMAIN store
                   THEN [disk EXCEPT ![cachePath] = WrittenBy(disk[cachePath], store[s3Key], s3Key, res)]
                   ELSE disk
        /\ r' = IF DownloadThrows(res) = "none"
                THEN IF r.pathIdx < Len(inputs.paths)
                     THEN [r EXCEPT !.pathIdx = r.pathIdx + 1, !.s3Key = s3Key]
                     ELSE AfterAllPathsRestored(r, s3Key)
                ELSE NextCandidate([r EXCEPT !.s3Key = s3Key, !.caught = DownloadThrows(res)])
    /\ UNCHANGED <<store, env, inputs, state, pc, s, up, out, fn>>

\* after the loop: cache-hit output, miss handling, matched key into the state.
\* failOnCacheMiss (read with the other inputs) and earlyExit are used only here.
RestoreEnd ==
    /\ pc = "restore"
    /\ r.pc = "end"
    /\ \/ /\ r.cacheKey = NoKey
          /\ \E failOnCacheMiss \in BOOLEAN, earlyExit \in BOOLEAN :
              /\ out' = MissOutcome(failOnCacheMiss, earlyExit)
              /\ r' = [r EXCEPT !.pc = "done", !.failOnCacheMiss = failOnCacheMiss,
                                !.earlyExit = failOnCacheMiss /\ earlyExit,
                                !.returned = IF out'.exitCode = "1" THEN "none" ELSE "undefined"]
          /\ UNCHANGED state
       \/ /\ r.cacheKey # NoKey
          /\ r' = [r EXCEPT !.pc = "done", !.returned = "undefined"]
          /\ out' = [out EXCEPT !.cacheHit =
                        IF IsExactS3KeyMatch(r.cacheKey, r.primaryKey, inputs.paths)
                        THEN "true" ELSE "false"]
          /\ state' = [state EXCEPT !.CacheMatchedKey = r.cacheKey]
    /\ UNCHANGED <<store, disk, requests, env, inputs, pc, s, up, fn>>

RestoreStep ==
    \/ RestoreBegin
    \/ RestoreHead
    \/ RestoreDownload
    \/ RestoreEnd

----------------------------------------------------------------------------
(* restoreImpl on its own: one run against any store *)

\* the storage keys restoreImpl can ask for
RestoreUniverse == { RestoreS3Key(k, p) : k \in Keys, p \in PathSet }

SeqsUpTo(S, n) == UNION { [1..m -> S] : m \in 0..n }

\* the restore-keys input, one key per line
RestoreKeyLists == SeqsUpTo(Keys, MaxRestoreKeys)

\* the path input: at least one path
PathLists == SeqsUpTo(PathSet, MaxPaths) \ {<<>>}

\* a small object some earlier job left in the store
StoredObject == [kind |-> "file", gzSize |-> 1, bytes |-> <<<<0, 1>>>>]

\* a small tar archive some earlier job left in the store
StoredArchive == [kind |-> "dir", gzSize |-> 1, bytes |-> <<<<0, 1>>>>]

\* what an earlier job left under a storage key: an archive for the directory
\* path (basename "d"), a plain compressed file otherwise
StoredAt(s3Key) == IF s3Key[Len(s3Key)] = "d" THEN StoredArchive ELSE StoredObject

\* everything set; or the event not tied to a ref; or one of the required
\* settings missing; or all of them missing
Envs ==
    {FullEnv, [FullEnv EXCEPT !.event = FALSE]}
        \cup { [FullEnv EXCEPT ![v] = FALSE] : v \in requiredEnvVars }
        \cup { [v \in DOMAIN FullEnv |-> v = "event"] }

InitRestore ==
    /\ \E present \in SUBSET RestoreUniverse : store = [k \in present |-> StoredAt(k)]
    /\ disk = [p \in PathSet |-> Missing]
    /\ requests = <<>>
    /\ env \in Envs
    /\ \E k \in Keys, rk \in RestoreKeyLists, ps \in PathLists :
          inputs = [key |-> k, restoreKeys |-> rk, paths |-> ps]
    /\ state = NoState
    /\ pc = "restore"
    /\ r = [RIdle EXCEPT !.pc = "begin"]
    /\ s = SIdle
    /\ up = UpIdle
    /\ out = NoOut
    /\ fn = FnIdle

NextRestore == RestoreStep

SpecRestore == InitRestore /\ [][NextRestore]_vars

----------------------------------------------------------------------------
(* The restoreImpl of src/unnamed/part_000, which reads `${key}:${cachePath}`: *)
(* one run against any store. Its locals are kept in r as well.                *)

\* the storage keys this restoreImpl can ask for
ByPathUniverse == { SaveS3Key(k, p) : k \in Keys, p \in PathSet }

\* what an earlier job left under a storage key: an archive for the directory
\* path, a plain compressed file otherwise
StoredByPathAt(s3Key) == IF s3Key[Len(s3Key)] = "/" THEN StoredArchive ELSE StoredObject

\* the end of one turn of the inner loop: catch (error) { found = false; ... },
\* then the next cachePath, or the first cachePath of the next key, or the end of
\* both loops; nothing breaks out of either loop and nothing sets found again
AfterFetch(rr, s3Key, threw, nPaths) ==
    LET next == IF rr.pathIdx < nPaths
                THEN [rr EXCEPT !.pathIdx = rr.pathIdx + 1]
                ELSE IF rr.idx < Len(rr.allKeys)
                     THEN [rr EXCEPT !.idx = rr.idx + 1, !.pathIdx = 1]
                     ELSE [rr EXCEPT !.pc = "end"]
    IN  [next EXCEPT !.s3Key = s3Key,
                     !.found = rr.found /\ ~threw,
                     !.caught = IF threw THEN "FetchFailed" ELSE rr.caught]

\* availability and event checks, primary key, candidate list, flags, let found = true
RestoreByPathBegin ==
    /\ pc = "restoreByPath"
    /\ r.pc = "begin"
    /\ \/ /\ ~isCacheFeatureAvailable(env)
          /\ out' = [out EXCEPT !.cacheHit = "false"]
          /\ r' = [r EXCEPT !.pc = "done", !.returned = "undefined"]
          /\ UNCHANGED state
       \/ /\ isCacheFeatureAvailable(env)
          /\ ~isValidEvent(env)
          /\ r' = [r EXCEPT !.pc = "done", !.returned = "undefined"]
          /\ UNCHANGED <<state, out>>
       \/ /\ isCacheFeatureAvailable(env)
          /\ isValidEvent(env)
          /\ \E lookupOnly \in BOOLEAN :
              LET primaryKey == PrimaryKeyOf(state, inputs) IN
              /\ state' = [state EXCEPT !.CachePrimaryKey = primaryKey]
              /\ r' = [r EXCEPT !.pc = "loop", !.primaryKey = primaryKey,
                                !.allKeys = <<primaryKey>> \o Slice1(inputs.restoreKeys),
                                !.lookupOnly = lookupOnly, !.idx = 1, !.pathIdx = 1,
                                !.found = TRUE]
          /\ UNCHANGED out
    /\ UNCHANGED <<store, disk, requests, env, inputs, pc, s, up, fn>>

\* one turn of the inner loop in lookupOnly mode: HeadObject for `${key}:${cachePath}`;
\* any error, NotFound included, reaches the catch block
RestoreByPathHead ==
    /\ pc = "restoreByPath"
    /\ r.pc = "loop"
    /\ r.lookupOnly
    /\ LET s3Key == SaveS3Key(r.allKeys[r.idx], inputs.paths[r.pathIdx]) IN
       \E res \in (IF s3Key \in DOMAIN store THEN {"none", "error"} ELSE {"NotFound", "error"}) :
        /\ requests' = Append(requests, RestoreReq("HeadObject", s3Key, <<r.idx, r.pathIdx>>, res))
        /\ r' = AfterFetch(r, s3Key, res # "none", Len(inputs.paths))
    /\ UNCHANGED <<store, disk, env, inputs, state, pc, s, up, out, fn>>

\* one turn of the inner loop in download mode: downloadFromS3(bucketName, s3Key, cachePath),
\* and after it core.setOutput(Outputs.CacheHit, s3Key)
RestoreByPathDownload ==
    /\ pc = "restoreByPath"
    /\ r.pc = "loop"
    /\ ~r.lookupOnly
    /\ LET cachePath == inputs.paths[r.pathIdx]
           s3Key == SaveS3Key(r.allKeys[r.idx], cachePath)
       IN
       \E res \in DownloadOutcomes(store, s3Key) :
        /\ requests' = Append(requests, RestoreReq("GetObject", s3Key, <<r.idx, r.pathIdx>>, res))
        /\ disk' = IF s3Key \in DOMAIN store
                   THEN [disk EXCEPT ![cachePath] = WrittenBy(disk[cachePath], store[s3Key], s3Key, res)]
                   ELSE disk
        /\ out' = IF DownloadThrows(res) = "none" THEN [out EXCEPT !.cacheHit = s3Key] ELSE out
        /\ r' = AfterFetch(r, s3Key, DownloadThrows(res) # "none", Len(inputs.paths))
    /\ UNCHANGED <<store, env, inputs, state, pc, s, up, fn>>

\* after the loops: if (!found) the miss handling; else the matched key, allKeys[0],
\* into the state
RestoreByPathEnd ==
    /\ pc = "restoreByPath"
    /\ r.pc = "end"
    /\ \/ /\ ~r.found
          /\ \E failOnCacheMiss \in BOOLEAN, earlyExit \in BOOLEAN :
              /\ out' = MissOutcome(failOnCacheMiss, earlyExit)
              /\ r' = [r EXCEPT !.pc = "done", !.failOnCacheMiss = failOnCacheMiss,
                                !.earlyExit = failOnCacheMiss /\ earlyExit,
                                !.returned = IF out'.exitCode = "1" THEN "none" ELSE "undefined"]
          /\ UNCHANGED state
       \/ /\ r.found
          /\ r' = [r EXCEPT !.pc = "done", !.returned = "undefined"]
          /\ state' = [state EXCEPT !.CacheMatchedKey = r.allKeys[1]]
          /\ UNCHANGED out
    /\ UNCHANGED <<store, disk, requests, env, inputs, pc, s, up, fn>>

InitRestoreByPath ==
    /\ \E present \in SUBSET ByPathUniverse : store = [k \in present |-> StoredByPathAt(k)]
    /\ disk = [p \in PathSet |-> Missing]
    /\ requests = <<>>
    /\ env \in Envs
    /\ \E k \in Keys, rk \in RestoreKeyLists, ps \in PathLists :
          inputs = [key |-> k, restoreKeys |-> rk, paths |-> ps]
    /\ state = NoState
    /\ pc = "restoreByPath"
    /\ r = [RIdle EXCEPT !.pc = "begin"]
    /\ s = SIdle
    /\ up = UpIdle
    /\ out = NoOut
    /\ fn = FnIdle

NextRestoreByPath ==
    \/ RestoreByPathBegin
    \/ RestoreByPathHead
    \/ RestoreByPathDownload
    \/ RestoreByPathEnd

SpecRestoreByPath == InitRestoreByPath /\ [][NextRestoreByPath]_vars

----------------------------------------------------------------------------
(* saveImpl and isExactKeyMatch (src/unnamed/part_000) *)

\* the letter without its case, its accent kept; every other character is itself
Lower(c) ==
    CASE c = "V" -> "v"
      [] c = "D" -> "d"
      [] c = "E" -> "e"
      [] c = "A" -> "a"
      [] c = "B" -> "b"
      [] c = "Ä" -> "ä"
      [] OTHER -> c

\* the letter a character is written on: without its case and without its accent
BaseLetter(c) == IF Lower(c) = "ä" THEN "a" ELSE Lower(c)

\* the character carries an accent
HasAccent(c) == Lower(c) = "ä"

BaseCompareEqual(a, b) ==
    /\ Len(a) = Len(b)
    /\ \A i \in 1..Len(a) : BaseLetter(a[i]) = BaseLetter(b[i])

\* a.localeCompare(b, undefined, {sensitivity: "accent"}) === 0: the strings are
\* the same up to letter case
AccentCompareEqual(a, b) ==
    /\ Len(a) = Len(b)
    /\ \A i \in 1..Len(a) : Lower(a[i]) = Lower(b[i])

\* isExactKeyMatch(key, cacheKey)
isExactKeyMatch(key, cacheKey) == cacheKey # NoKey /\ AccentCompareEqual(cacheKey, key)

\* stateProvider.getCacheState(): the matched key the restore phase stored, if any
getCacheState(st) == st.CacheMatchedKey

\* a save run is in progress (the job's own, or the save of an earlier job)
SaveRunning == pc \in {"save", "earlier_save"}

\* checks, primary key, and the exact-hit shortcut before the upload loop
\* (the keys of the model are never empty, so `if (!primaryKey)` does not apply)
SaveBegin ==
    /\ SaveRunning
    /\ s.pc = "begin"
    /\ \/ /\ ~(isCacheFeatureAvailable(env) /\ isValidEvent(env))
          /\ s' = [s EXCEPT !.pc = "done"]
       \/ /\ isCacheFeatureAvailable(env)
          /\ isValidEvent(env)
          /\ s' = [s EXCEPT !.primaryKey = PrimaryKeyOf(state, inputs),
                            !.cacheKey = PrimaryKeyOf(state, inputs),
                            !.pathIdx = 1,
                            !.pc = IF isExactKeyMatch(PrimaryKeyOf(state, inputs), getCacheState(state))
                                   THEN "done" ELSE "loop"]
    /\ UNCHANGED <<store, disk, requests, env, inputs, state, pc, r, up, out, fn>>

\* one turn of the loop over cachePaths: call uploadToS3(bucketName, `${primaryKey}:${cachePath}`, cachePath)
SaveCallUpload ==
    /\ SaveRunning
    /\ s.pc = "loop"
    /\ up' = UpCall(SaveS3Key(s.primaryKey, inputs.paths[s.pathIdx]), inputs.paths[s.pathIdx])
    /\ s' = [s EXCEPT !.pc = "uploading"]
    /\ UNCHANGED <<store, disk, requests, env, inputs, state, pc, r, out, fn>>

AfterUploadStopOnFailure(ss, key, returned, nPaths) ==
    [ss EXCEPT !.success = ss.success /\ returned,
               !.outcomes = Append(ss.outcomes, [key |-> key, ok |-> returned]),
               !.pathIdx = ss.pathIdx + 1,
               !.pc = IF ss.pathIdx < nPaths /\ returned THEN "loop" ELSE "done"]

\* try { await uploadToS3(...) } catch (error) { success = false; logWarning(...) }
\* and on to the next cachePath, or out of the loop after the last one
AfterUpload(ss, key, returned, nPaths) ==
    [ss EXCEPT !.success = ss.success /\ returned,
               !.outcomes = Append(ss.outcomes, [key |-> key, ok |-> returned]),
               !.pathIdx = ss.pathIdx + 1,
               !.pc = IF ss.pathIdx < nPaths THEN "loop" ELSE "done"]

\* uploadToS3 returned, or threw into the catch block of the loop (success = false)
SaveUploadDone ==
    /\ SaveRunning
    /\ s.pc = "uploading"
    /\ up.pc \in {"returned", "threw"}
    /\ s' = AfterUpload(s, up.key, up.pc = "returned", Len(inputs.paths))
    /\ up' = UpIdle
    /\ UNCHANGED <<store, disk, requests, env, inputs, state, pc, r, out, fn>>

SaveStep ==
    \/ SaveBegin
    \/ SaveCallUpload
    \/ SaveUploadDone

----------------------------------------------------------------------------
(* uploadToS3 on its own: one call, any file, any key *)

InitUpload ==
    /\ store = EmptyStore
    /\ requests = <<>>
    /\ env = FullEnv
    /\ inputs = NoInputs
    /\ state = NoState
    /\ pc = "upload"
    /\ r = RIdle
    /\ s = SIdle
    /\ out = NoOut
    /\ fn = FnIdle
    /\ \E k \in Keys, p \in PathSet, f \in FileInfos \cup {Missing} :
        /\ disk = [q \in PathSet |-> IF q = p THEN f ELSE Missing]
        /\ up = UpCall(SaveS3Key(k, p), p)

NextUpload == UploadStep

SpecUpload == InitUpload /\ [][NextUpload]_vars

----------------------------------------------------------------------------
(* One job: the restore phase, then the save phase with the same state provider. *)
(* The restore-keys input follows the convention that its first entry is the     *)
(* primary key.                                                                  *)

\* the objects of whole entries, under the keys restoreImpl asks for, for a set of cache keys
EntryStore(K) == [k \in { RestoreS3Key(key, p) : key \in K, p \in PathSet } |-> StoredObject]

SmallFile == [kind |-> "file", gzSize |-> 1, from |-> NoKey]

BigDirectory == [kind |-> "dir", gzSize |-> chunkSize + 1, from |-> NoKey]

\* the workspace: each path missing or a small file, or one directory that packs
\* to more than one chunk
Workspaces ==
    [PathSet -> {Missing, SmallFile}]
        \cup { [p \in PathSet |-> IF p = q THEN BigDirectory ELSE Missing] : q \in PathSet }

\* the path input of a job
JobPathLists == SeqsUpTo(PathSet, MaxJobPaths) \ {<<>>}

Init ==
    /\ \E K \in SUBSET Keys : store = EntryStore(K)
    /\ disk \in Workspaces
    /\ requests = <<>>
    /\ env \in Envs
    /\ \E k \in Keys, rk \in RestoreKeyLists, ps \in JobPathLists :
          /\ Len(rk) > 0 => rk[1] = k
          /\ inputs = [key |-> k, restoreKeys |-> rk, paths |-> ps]
    /\ state = NoState
    /\ pc = "restore"
    /\ r = [RIdle EXCEPT !.pc = "begin"]
    /\ s = SIdle
    /\ up = UpIdle
    /\ out = NoOut
    /\ fn = FnIdle

\* the restore phase is over and did not fail the job: the save phase runs, with
\* the same state provider
RestoreToSave ==
    /\ pc = "restore"
    /\ r.pc = "done"
    /\ ~out.failed
    /\ pc' = "save"
    /\ s' = [SIdle EXCEPT !.pc = "begin"]
    /\ UNCHANGED <<store, disk, requests, env, inputs, state, r, up, out, fn>>

Next ==
    \/ RestoreStep
    \/ RestoreToSave
    \/ SaveStep
    \/ UploadStep

Spec == Init /\ [][Next]_vars

----------------------------------------------------------------------------
(* saveImpl on its own: one run with a state provider that holds nothing *)

InitSave ==
    /\ store = EmptyStore
    /\ disk \in Workspaces
    /\ requests = <<>>
    /\ env \in Envs
    /\ \E k \in Keys, ps \in PathLists : inputs = [key |-> k, restoreKeys |-> <<>>, paths |-> ps]
    /\ state = NoState
    /\ pc = "save"
    /\ r = RIdle
    /\ s = [SIdle EXCEPT !.pc = "begin"]
    /\ up = UpIdle
    /\ out = NoOut
    /\ fn = FnIdle

NextSave ==
    \/ SaveStep
    \/ UploadStep

SpecSave == InitSave /\ [][NextSave]_vars

----------------------------------------------------------------------------
(* Two jobs: an earlier job saves; a later job restores over the same paths *)

InitRoundTrip ==
    /\ \E K \in SUBSET Keys : store = EntryStore(K)
    /\ disk \in Workspaces
    /\ requests = <<>>
    /\ env \in Envs
    /\ \E k \in Keys, ps \in JobPathLists : inputs = [key |-> k, restoreKeys |-> <<>>, paths |-> ps]
    /\ state = NoState
    /\ pc = "earlier_save"
    /\ r = RIdle
    /\ s = [SIdle EXCEPT !.pc = "begin"]
    /\ up = UpIdle
    /\ out = NoOut
    /\ fn = FnIdle

\* the earlier job is over; a later job starts with its own key and restore keys,
\* an empty state provider and a fresh request log, and runs its restore phase
NewJob ==
    /\ pc = "earlier_save"
    /\ s.pc = "done"
    /\ \E k \in Keys, rk \in RestoreKeyLists :
          inputs' = [inputs EXCEPT !.key = k, !.restoreKeys = rk]
    /\ state' = NoState
    /\ requests' = <<>>
    /\ pc' = "restore"
    /\ r' = [RIdle EXCEPT !.pc = "begin"]
    /\ UNCHANGED <<store, disk, env, s, up, out, fn>>

NextRoundTrip ==
    \/ SaveStep
    \/ UploadStep
    \/ NewJob
    \/ RestoreStep

SpecRoundTrip == InitRoundTrip /\ [][NextRoundTrip]_vars

----------------------------------------------------------------------------
(* The storage-key derivations on their own: two (cache key, path) pairs, each *)
(* derivation applied to both.                                                 *)

\* cache keys, with and without the characters the derivations use as separators
DerivationKeys == { <<"v">>, <<"v", ":", "e">>, <<"v", "/", "e">> }

\* paths: plain names, names under directories, a trailing slash, a colon in a name
DerivationPaths ==
    { <<"a">>, <<"a", "/">>, <<"e", "/", "a">>, <<"f", "/", "a">>, <<"e", ":", "a">> }

\* process.env.GITHUB_REPOSITORY_ID
RepositoryId == <<"7">>

\* `${process.env.GITHUB_REPOSITORY_ID}/${primaryKey}/${path.basename(filePath)}`
generateS3Key(primaryKey, filePath) ==
    RepositoryId \o <<"/">> \o primaryKey \o <<"/">> \o basename(filePath)

\* a (cache key, path) pair
KeyPathPairs == [key : DerivationKeys, path : DerivationPaths]

InitKeys ==
    /\ store = EmptyStore
    /\ disk = [p \in PathSet |-> Missing]
    /\ requests = <<>>
    /\ env = FullEnv
    /\ inputs = NoInputs
    /\ state = NoState
    /\ pc = "keys"
    /\ r = RIdle
    /\ s = SIdle
    /\ up = UpIdle
    /\ out = NoOut
    /\ \E a \in KeyPathPairs, b \in KeyPathPairs : fn = [FnIdle EXCEPT !.x = a, !.y = b]

\* the storage keys restoreImpl asks for
DeriveRestoreKeys ==
    /\ pc = "keys"
    /\ fn.op = "none"
    /\ fn' = [fn EXCEPT !.op = "RestoreS3Key",
                        !.result = <<RestoreS3Key(fn.x.key, fn.x.path), RestoreS3Key(fn.y.key, fn.y.path)>>]
    /\ UNCHANGED <<store, disk, requests, env, inputs, state, pc, r, s, up, out>>

\* the storage keys saveImpl writes
DeriveSaveKeys ==
    /\ pc = "keys"
    /\ fn.op = "none"
    /\ fn' = [fn EXCEPT !.op = "SaveS3Key",
                        !.result = <<SaveS3Key(fn.x.key, fn.x.path), SaveS3Key(fn.y.key, fn.y.path)>>]
    /\ UNCHANGED <<store, disk, requests, env, inputs, state, pc, r, s, up, out>>

\* the storage keys generateS3Key gives
DeriveGeneratedKeys ==
    /\ pc = "keys"
    /\ fn.op = "none"
    /\ fn' = [fn EXCEPT !.op = "generateS3Key",
                        !.result = <<generateS3Key(fn.x.key, fn.x.path), generateS3Key(fn.y.key, fn.y.path)>>]
    /\ UNCHANGED <<store, disk, requests, env, inputs, state, pc, r, s, up, out>>

NextKeys ==
    \/ DeriveRestoreKeys
    \/ DeriveSaveKeys
    \/ DeriveGeneratedKeys

SpecKeys == InitKeys /\ [][NextKeys]_vars

----------------------------------------------------------------------------
(* isExactKeyMatch on its own: a key, and a restored key that may be absent *)

\* a letter in both cases, with and without an accent, and another letter
MatchChars == {"a", "A", "ä", "Ä", "b"}

MatchKeys == SeqsUpTo(MatchChars, MaxKeyLen)

InitMatch ==
    /\ store = EmptyStore
    /\ disk = [p \in PathSet |-> Missing]
    /\ requests = <<>>
    /\ env = FullEnv
    /\ inputs = NoInputs
    /\ state = NoState
    /\ pc = "match"
    /\ r = RIdle
    /\ s = SIdle
    /\ up = UpIdle
    /\ out = NoOut
    /\ \E key \in MatchKeys \ {NoKey}, cacheKey \in MatchKeys :
          fn = [FnIdle EXCEPT !.x = key, !.y = cacheKey]

\* utils.isExactKeyMatch(key, cacheKey)
ApplyIsExactKeyMatch ==
    /\ pc = "match"
    /\ fn.op = "none"
    /\ fn' = [fn EXCEPT !.op = "isExactKeyMatch", !.result = isExactKeyMatch(fn.x, fn.y)]
    /\ UNCHANGED <<store, disk, requests, env, inputs, state, pc, r, s, up, out>>

NextMatch == ApplyIsExactKeyMatch

SpecMatch == InitMatch /\ [][NextMatch]_vars

----------------------------------------------------------------------------
(* What uploadToS3 packs and what downloadFromS3 makes of it: one workspace  *)
(* entry, a directory or a regular file of any content, packed and fetched   *)
(* back. A file's content is known by the bytes it holds from offset 257 on, *)
(* at most five of them; a shorter file holds fewer.                         *)

\* the zero byte Buffer.alloc fills with
Nul == "NUL"

\* the signature isTarFile looks for, and where
TarMagic == <<"u", "s", "t", "a", "r">>
MagicLen == 262 - 257

\* the bytes a regular file can hold at offsets 257..261
ContentBytes == {"u", "s", "t", "a", "r", "x"}
Contents == SeqsUpTo(ContentBytes, MagicLen)

\* the workspace entries: a regular file of any content, or a directory with some
\* number of members
MaxMembers == 2
Entries == { [isDirectory |-> FALSE, content |-> c, members |-> 0] : c \in Contents }
              \cup { [isDirectory |-> TRUE, content |-> <<>>, members |-> m] : m \in 0..MaxMembers }

\* gzip, and gunzip of what gzip wrote
Gzip(bytes) == [gz |-> bytes]
Gunzip(payload) == payload.gz

\* compressData(filePath): the gzip of the file's content
compressData(entry) == Gzip(entry.content)

\* compressDirectory(dirPath, key): tar.create with gzip; the archive opens with the
\* 512-byte header of the directory's own entry, which carries the ustar signature
\* at offset 257
compressDirectory(entry) == Gzip(TarMagic)

\* const isDirectory = fs.statSync(filePath).isDirectory(); then one of the two
Compressed(entry) ==
    IF entry.isDirectory THEN compressDirectory(entry) ELSE compressData(entry)

\* the five bytes of a zero-filled 512-byte buffer at 257..261 after the file's
\* first 512 bytes were read into it
HeaderBytes(bytes) == [i \in 1..MagicLen |-> IF i <= Len(bytes) THEN bytes[i] ELSE Nul]

\* isTarFile(filePath): buffer.toString('ascii', 257, 262) === 'ustar'
isTarFile(bytes) == HeaderBytes(bytes) = TarMagic

InitUnpack ==
    /\ store = EmptyStore
    /\ disk = [p \in PathSet |-> Missing]
    /\ requests = <<>>
    /\ env = FullEnv
    /\ inputs = NoInputs
    /\ state = NoState
    /\ pc = "unpack"
    /\ r = RIdle
    /\ s = SIdle
    /\ up = UpIdle
    /\ out = NoOut
    /\ \E entry \in Entries : fn = [FnIdle EXCEPT !.x = entry]

\* uploadToS3 up to the payload it sends: compressDirectory or compressData
PackEntry ==
    /\ pc = "unpack"
    /\ fn.op = "none"
    /\ fn' = [fn EXCEPT !.op = "uploadToS3", !.y = Compressed(fn.x)]
    /\ UNCHANGED <<store, disk, requests, env, inputs, state, pc, r, s, up, out>>

\* downloadFromS3 once the payload has arrived: gunzip into destinationPath,
\* isTarFile(destinationPath), and tar.extract if it says so; the decompressed
\* file stays at destinationPath either way
FetchPayload ==
    /\ pc = "unpack"
    /\ fn.op = "uploadToS3"
    /\ LET decompressed == Gunzip(fn.y) IN
       fn' = [fn EXCEPT !.op = "downloadFromS3",
                        !.result = [restored |-> decompressed,
                                    unpacked |-> isTarFile(decompressed)]]
    /\ UNCHANGED <<store, disk, requests, env, inputs, state, pc, r, s, up, out>>

NextUnpack ==
    \/ PackEntry
    \/ FetchPayload

SpecUnpack == InitUnpack /\ [][NextUnpack]_vars

----------------------------------------------------------------------------
(* Reading the request log *)

MultipartOps == {"CreateMultipartUpload", "UploadPart", "CompleteMultipartUpload", "AbortMultipartUpload"}

\* positions in the log of the requests with this operation for this upload id
ReqsOf(op, id) == { i \in 1..Len(requests) : requests[i].op = op /\ requests[i].uploadId = id }

\* the upload ids of the sessions that were opened
OpenedIds == { requests[i].uploadId : i \in { j \in 1..Len(requests) :
                  requests[j].op = "CreateMultipartUpload" /\ requests[j].ok } }

\* the UploadPart requests of one session, in the order sent
PartReqs(id) ==
    LET IsPart(q) == q.op = "UploadPart" /\ q.uploadId = id
    IN  SelectSeq(requests, IsPart)

\* the (ETag, PartNumber) pairs of the parts of one session whose upload succeeded, in the order sent
SucceededPairs(id) ==
    LET IsGood(q) == q.op = "UploadPart" /\ q.uploadId = id /\ q.ok
        good == SelectSeq(requests, IsGood)
    IN  [k \in 1..Len(good) |-> [ETag |-> good[k].body, PartNumber |-> good[k].partNumber]]

\* uploadToS3 is done with session id: it returned, threw, or is no longer working on it
LeftSession(id) == up.uploadId # id \/ up.pc \in {"returned", "threw", "idle"}

----------------------------------------------------------------------------
(* Claims about uploadToS3 *)

\* C1: once an UploadPart or CompleteMultipartUpload request of a session has failed,
\* no further UploadPart or CompleteMultipartUpload is sent for it, AbortMultipartUpload
\* is sent for it after the failure, never twice, and it has been sent exactly once
\* by the time the error leaves uploadToS3.
C1_AbortOnceAfterFailure ==
    \A i \in 1..Len(requests) :
        (requests[i].op \in {"UploadPart", "CompleteMultipartUpload"} /\ ~requests[i].ok) =>
            LET id == requests[i].uploadId
                aborts == ReqsOf("AbortMultipartUpload", id)
            IN  /\ \A j \in (i + 1)..Len(requests) :
                       requests[j].uploadId = id =>
                           requests[j].op \notin {"UploadPart", "CompleteMultipartUpload"}
                /\ \A j \in aborts : j > i
                /\ Cardinality(aborts) <= 1
                /\ LeftSession(id) => Cardinality(aborts) = 1

\* a part upload failed after an earlier part had succeeded, and the error has reached the caller
C1_Witness ==
    /\ up.pc = "threw"
    /\ up.error = "UploadPartError"
    /\ Len(up.parts) >= 1
    /\ ReqsOf("AbortMultipartUpload", up.uploadId) # {}

\* C4 as stated: when uploadToS3 has left a session it opened, exactly one request
\* out of CompleteMultipartUpload and AbortMultipartUpload has been sent for it.
C4_ExactlyOneInvoked ==
    \A id \in OpenedIds :
        LeftSession(id) =>
            Cardinality(ReqsOf("CompleteMultipartUpload", id))
              + Cardinality(ReqsOf("AbortMultipartUpload", id)) = 1

\* C4 (amended): when uploadToS3 has left a session it opened, exactly one of these
\* happened: CompleteMultipartUpload succeeded, or AbortMultipartUpload was sent;
\* each of the two requests was sent at most once, and an abort that follows a
\* CompleteMultipartUpload follows one that failed.
C4_CompletedOrAborted ==
    \A id \in OpenedIds :
        LET completes == ReqsOf("CompleteMultipartUpload", id)
            aborts == ReqsOf("AbortMultipartUpload", id)
            completed == { i \in completes : requests[i].ok }
        IN  /\ Cardinality(completes) <= 1
            /\ Cardinality(aborts) <= 1
            /\ completed # {} => aborts = {}
            /\ LeftSession(id) => Cardinality(completed) + Cardinality(aborts) = 1

\* finalize failed and uploadToS3 has thrown: both requests are in the log
C4_Witness ==
    /\ up.pc = "threw"
    /\ up.error = "CompleteError"
    /\ ReqsOf("CompleteMultipartUpload", up.uploadId) # {}
    /\ ReqsOf("AbortMultipartUpload", up.uploadId) # {}

\* C5: the k-th UploadPart request of a session carries part number k, and every
\* CompleteMultipartUpload request lists exactly the (ETag, part number) pairs of
\* the parts whose upload succeeded, in ascending part-number order.
C5_PartNumbering ==
    \A id \in OpenedIds :
        /\ \A k \in 1..Len(PartReqs(id)) : PartReqs(id)[k].partNumber = k
        /\ \A c \in ReqsOf("CompleteMultipartUpload", id) :
              /\ requests[c].parts = SucceededPairs(id)
              /\ \A k \in 1..Len(requests[c].parts) : requests[c].parts[k].PartNumber = k

\* a session of three parts has been finalized
C5_Witness ==
    \E c \in 1..Len(requests) :
        /\ requests[c].op = "CompleteMultipartUpload"
        /\ requests[c].ok
        /\ Len(requests[c].parts) >= 3

\* C16: after uploadToS3 returned, the object the store holds under the key is the
\* compressed payload byte for byte: all of its bytes, once, in order, whether sent
\* as one PutObject body or as parts; and of the parts sent, in part-number order,
\* each but the last is chunkSize bytes long and begins where the one before ended.
C16_StoredIsPayload ==
    up.pc = "returned" =>
        /\ up.key \in DOMAIN store
        /\ store[up.key] = Object(disk[up.filePath])
        /\ store[up.key].bytes = <<<<0, up.fileSize>>>>
        /\ up.fileSize <= chunkSize =>
              \E i \in 1..Len(requests) :
                  requests[i].op = "PutObject" /\ requests[i].ok /\ requests[i].body = <<0, up.fileSize>>
        /\ up.fileSize > chunkSize =>
              LET sent == PartReqs(up.uploadId) IN
              /\ Len(sent) >= 2
              /\ \A k \in 1..Len(sent) :
                    /\ sent[k].partNumber = k
                    /\ sent[k].body[1] = (k - 1) * chunkSize
                    /\ k < Len(sent) => sent[k].body[2] = chunkSize
                    /\ k = Len(sent) => sent[k].body[1] + sent[k].body[2] = up.fileSize

\* a payload one byte over the threshold is in the store, sent as a full chunk and
\* a part of one byte
C16_Witness ==
    /\ up.pc = "returned"
    /\ up.fileSize = chunkSize + 1
    /\ Len(PartReqs(up.uploadId)) = 2
    /\ PartReqs(up.uploadId)[2].body = <<chunkSize, 1>>
    /\ store[up.key].bytes = <<<<0, chunkSize + 1>>>>

\* C9: when a multipart step failed and the abort failed too, uploadToS3 throws the
\* error of the step, not the error of the abort.
C9_OriginalErrorSurfaces ==
    (/\ up.pc = "threw"
     /\ up.error # "none"
     /\ \E a \in ReqsOf("AbortMultipartUpload", up.uploadId) : ~requests[a].ok)
        => up.thrown = up.error

\* C10: a payload of at most chunkSize (5 MiB) bytes is sent with one PutObject and
\* no multipart request; a larger one with no PutObject, a CreateMultipartUpload
\* first, and parts of chunkSize bytes each (the last one may be shorter).
C10_StrategyBySize ==
    /\ chunkSize = 5242880
    /\ up.pc \in {"put", "create", "part", "abort", "returned"} \/ (up.pc = "threw" /\ up.fileSize > 0) =>
        IF up.fileSize <= chunkSize
        THEN /\ \A i \in 1..Len(requests) : requests[i].op = "PutObject"
             /\ Len(requests) <= 1
             /\ up.pc \in {"returned", "threw"} => Len(requests) = 1
        ELSE /\ \A i \in 1..Len(requests) : requests[i].op \in MultipartOps
             /\ Len(requests) >= 1 => requests[1].op = "CreateMultipartUpload"
             /\ up.pc \in {"returned", "threw"} => Len(requests) >= 1
             /\ \A i \in 1..Len(requests) : requests[i].op = "UploadPart" =>
                   /\ requests[i].body[1] = (requests[i].partNumber - 1) * chunkSize
                   /\ \/ requests[i].body[2] = chunkSize
                      \/ /\ requests[i].body[2] < chunkSize
                         /\ requests[i].body[1] + requests[i].body[2] = up.fileSize
             /\ up.pc = "returned" =>
                   \E c \in 1..Len(requests) :
                       /\ requests[c].op = "CompleteMultipartUpload"
                       /\ requests[c].ok
                       /\ Len(requests[c].parts) * chunkSize >= up.fileSize

\* a payload of exactly chunkSize bytes has been uploaded with a single PutObject
C10_Witness ==
    /\ up.pc = "returned"
    /\ up.fileSize = chunkSize
    /\ Len(requests) = 1
    /\ requests[1].op = "PutObject"

----------------------------------------------------------------------------
(* Claims about restoreImpl *)

\* candidate c had every requested path answered successfully (downloaded, or probed)
Satisfied(c) ==
    \A p \in 1..Len(inputs.paths) :
        \E i \in 1..Len(requests) :
            /\ requests[i].op \in {"GetObject", "HeadObject"}
            /\ requests[i].tag = <<c, p>>
            /\ requests[i].ok

\* candidate c had every requested path downloaded
Restored(c) ==
    \A p \in 1..Len(inputs.paths) :
        \E i \in 1..Len(requests) :
            /\ requests[i].op = "GetObject"
            /\ requests[i].tag = <<c, p>>
            /\ requests[i].ok

\* restoreImpl went through the candidate loop and has finished
RestoreRan == r.pc = "done" /\ Len(r.allKeys) >= 1

\* C2: once a candidate key has had every requested path restored (or probed)
\* successfully, no download and no metadata probe is sent for a later candidate.
C2_NoRequestAfterFullRestore ==
    \A c \in 1..Len(r.allKeys) :
        Satisfied(c) =>
            \A i \in 1..Len(requests) :
                requests[i].op \in {"GetObject", "HeadObject"} => requests[i].tag[1] <= c

\* the primary key restored two or more paths while a fallback key was still untried
C2_Witness ==
    /\ RestoreRan
    /\ ~r.lookupOnly
    /\ Len(inputs.paths) >= 2
    /\ Len(r.allKeys) >= 2
    /\ Restored(1)

\* C3: with one or more requested paths, a run in which the primary key restores
\* every path ends with cache-hit "true"; a run in which a fallback key is the
\* first to restore every path ends with cache-hit "false" and the matched key
\* recorded; a run in which no candidate restores every path ends as a miss
\* (cache-hit "false", no matched key). A fallback entry that repeats the primary
\* key is not counted as a fallback.
C3_ExactnessByCandidate ==
    (RestoreRan /\ ~r.lookupOnly) =>
        /\ Restored(1) => out.cacheHit = "true"
        /\ (~Restored(1) /\ \E c \in 2..Len(r.allKeys) :
                                Restored(c) /\ r.allKeys[c] # r.primaryKey) =>
              (out.cacheHit = "false" /\ state.CacheMatchedKey # NoKey)
        /\ (\A c \in 1..Len(r.allKeys) : ~Restored(c)) =>
              (out.cacheHit = "false" /\ state.CacheMatchedKey = NoKey)

\* every candidate was tried and none came through: in download mode no candidate
\* had every path downloaded; in lookupOnly mode every probe failed with an error
\* other than NotFound (a probe answered NotFound ends the loop with that candidate
\* resolved, which C7 is about)
Miss ==
    /\ RestoreRan
    /\ \A c \in 1..Len(r.allKeys) : \E i \in 1..Len(requests) : requests[i].tag[1] = c
    /\ IF r.lookupOnly
       THEN \A i \in 1..Len(requests) : requests[i].err \notin {"none", "NotFound"}
       ELSE \A c \in 1..Len(r.allKeys) : ~Restored(c)

DownloadFailures == {"NotFound", "error", "InvalidBody", "GunzipError", "UnpackError"}

\* C13: a downloadFromS3 call that fails, in whichever way, reaches the catch block
\* of the candidate loop as the one error downloadFromS3 throws; no further path is
\* asked for under that candidate, which is not the resolved key; the request that
\* follows is for the first path under the next candidate, and the run does not end
\* before that candidate is tried; and the failure itself never fails the job (only
\* a Miss under failOnCacheMiss does).
C13_DownloadFailureIsMiss ==
    /\ \A i \in 1..Len(requests) :
          (requests[i].op = "GetObject" /\ ~requests[i].ok) =>
              LET c == requests[i].tag[1] IN
              /\ requests[i].err \in DownloadFailures
              /\ i = Len(requests) => r.caught = "DownloadFailed"
              /\ i < Len(requests) => requests[i + 1].tag = <<c + 1, 1>>
              /\ (i = Len(requests) /\ c < Len(r.allKeys)) =>
                    (r.pc = "loop" /\ r.idx = c + 1 /\ r.pathIdx = 1)
              /\ (r.pc \in {"end", "done"} /\ r.cacheKey # NoKey) => r.idx # c
    /\ out.failed => (r.failOnCacheMiss /\ r.cacheKey = NoKey)

\* the first candidate failed to unpack an archive, and the second candidate then
\* restored every path
C13_Witness ==
    /\ RestoreRan
    /\ Len(r.allKeys) >= 2
    /\ Len(inputs.paths) >= 2
    /\ \E i \in 1..Len(requests) : requests[i].err = "UnpackError" /\ requests[i].tag[1] = 1
    /\ Restored(2)
    /\ r.cacheKey # NoKey
    /\ ~out.failed

\* the requested paths that hold something downloadFromS3 wrote
WrittenPaths == { p \in { inputs.paths[i] : i \in 1..Len(inputs.paths) } : disk[p].from # NoKey }

\* C14: when restoreImpl has finished, the requested paths that were written all
\* hold content fetched under one and the same candidate key, and after a hit
\* every requested path holds the whole content fetched under the resolved key.
C14_OneCandidateOnDisk ==
    RestoreRan =>
        /\ \E c \in 1..Len(r.allKeys) :
              \A p \in WrittenPaths : disk[p].from = RestoreS3Key(r.allKeys[c], p)
        /\ (r.cacheKey # NoKey /\ ~r.lookupOnly) =>
              \A i \in 1..Len(inputs.paths) :
                  /\ disk[inputs.paths[i]].from = RestoreS3Key(r.allKeys[r.idx], inputs.paths[i])
                  /\ disk[inputs.paths[i]].kind # "partial"

\* the store holds an object for every requested path under candidate c
EntryExists(c) ==
    \A p \in 1..Len(inputs.paths) : RestoreS3Key(r.allKeys[c], inputs.paths[p]) \in DOMAIN store

\* C17: in lookupOnly mode no GetObject is sent and no requested path is written;
\* and in a run whose probes met no storage error, the first candidate whose entry
\* exists in the store is the one reported: it is the resolved key, stored as the
\* matched key, with cache-hit "true" when it is the primary key.
C17_LookupOnlyReportsExisting ==
    (r.lookupOnly /\ RestoreRan) =>
        /\ \A i \in 1..Len(requests) : requests[i].op = "HeadObject"
        /\ \A p \in PathSet : disk[p] = Missing
        /\ (\A i \in 1..Len(requests) : requests[i].err # "error") =>
              \A c \in 1..Len(r.allKeys) :
                  (EntryExists(c) /\ \A b \in 1..(c - 1) : ~EntryExists(b)) =>
                      /\ r.cacheKey = RestoreS3Key(r.allKeys[c], inputs.paths[1])
                      /\ state.CacheMatchedKey = r.cacheKey
                      /\ c = 1 => out.cacheHit = "true"

\* how a run in download mode ended, read from its request log: the first
\* candidate that had every path downloaded is the primary key ("exact", also when
\* the restore-keys repeat the primary key), another key ("fallback"), or there is
\* no such candidate ("miss")
Outcome ==
    IF \E c \in 1..Len(r.allKeys) : Restored(c)
    THEN LET first == CHOOSE c \in 1..Len(r.allKeys) :
                          Restored(c) /\ \A b \in 1..(c - 1) : ~Restored(b)
         IN  IF r.allKeys[first] = r.primaryKey THEN "exact" ELSE "fallback"
    ELSE "miss"

\* a run in download mode is over: note how it ended and the cache-hit output it
\* left, and run restoreImpl again, as another job does, with the same inputs
\* against whatever the store holds by then
RestoreAgain ==
    /\ pc = "restore"
    /\ r.pc = "done"
    /\ Len(r.allKeys) >= 1
    /\ ~r.lookupOnly
    /\ fn.op = "none"
    /\ fn' = [fn EXCEPT !.op = "earlier run", !.x = Outcome, !.y = out.cacheHit]
    /\ \E present \in SUBSET RestoreUniverse : store' = [k \in present |-> StoredAt(k)]
    /\ disk' = [p \in PathSet |-> Missing]
    /\ requests' = <<>>
    /\ state' = NoState
    /\ r' = [RIdle EXCEPT !.pc = "begin"]
    /\ out' = NoOut
    /\ UNCHANGED <<env, inputs, pc, s, up>>

NextTwoRuns ==
    \/ RestoreStep
    \/ RestoreAgain

SpecTwoRuns == InitRestore /\ [][NextTwoRuns]_vars

\* C18: two runs of restoreImpl that end differently (exact hit, fallback hit,
\* miss) leave different cache-hit outputs.
C18_OutputTellsOutcome ==
    (fn.op = "earlier run" /\ RestoreRan /\ ~r.lookupOnly) =>
        (fn.x # Outcome => fn.y # out.cacheHit)

\* C7: in lookupOnly mode a candidate becomes the resolved key only if HeadObject
\* succeeded for every requested path under it, and a candidate answered NotFound
\* is not the resolved key.
C7_LookupNeedsEveryProbe ==
    (r.lookupOnly /\ r.pc \in {"end", "done"} /\ r.cacheKey # NoKey) =>
        /\ \A p \in 1..Len(inputs.paths) :
              \E i \in 1..Len(requests) :
                  /\ requests[i].op = "HeadObject"
                  /\ requests[i].key = RestoreS3Key(r.allKeys[r.idx], inputs.paths[p])
                  /\ requests[i].ok
        /\ \A i \in 1..Len(requests) :
              requests[i].err = "NotFound" => requests[i].tag[1] # r.idx

----------------------------------------------------------------------------
(* Claims about save and restore together *)

\* the restore phase resolved the primary key: every path downloaded from the
\* first candidate, or, in lookupOnly mode, every path probed successfully under it
ExactHit == RestoreRan /\ Satisfied(1)

\* the number of uploadToS3 calls the save phase has made and seen end
UploadsAttempted == s.pathIdx - 1

\* the save phase of the job has ended after passing its availability checks
SaveRan == pc = "save" /\ s.pc = "done" /\ s.primaryKey # NoKey

\* C8: in one job, after a restore phase that ended in an exact hit on the primary
\* key the save phase uploads nothing; after a fallback hit or a miss it uploads
\* every requested path under the primary key.
C8_SaveSkippedOnlyAfterExactHit ==
    (RestoreRan /\ SaveRan) =>
        IF ExactHit
        THEN \A i \in 1..Len(requests) : requests[i].op \in {"GetObject", "HeadObject"}
        ELSE /\ UploadsAttempted = Len(inputs.paths)
             /\ s.primaryKey = r.primaryKey

\* the earlier job saved every requested path under cache key K
SavedUnder(K) == \A p \in 1..Len(inputs.paths) : SaveS3Key(K, inputs.paths[p]) \in DOMAIN store

\* the store holds nothing for cache key K and the requested paths
NoEntryFor(K) ==
    \A p \in 1..Len(inputs.paths) :
        /\ SaveS3Key(K, inputs.paths[p]) \notin DOMAIN store
        /\ RestoreS3Key(K, inputs.paths[p]) \notin DOMAIN store

\* saveImpl passed its checks and has left the loop over cachePaths
SaveLoopOver == SaveRunning /\ s.pc = "done" /\ s.primaryKey # NoKey

\* C11: when saveImpl has left its upload loop, uploadToS3 was called once for every
\* requested path, in order, under `${primaryKey}:${path}`, whatever became of the
\* calls before it; a path that is not on disk fails; a call that returned left its
\* object in the store; and the save counts as successful exactly when every call
\* returned.
C11_EveryPathAttempted ==
    SaveLoopOver =>
        /\ Len(s.outcomes) = Len(inputs.paths)
        /\ \A i \in 1..Len(s.outcomes) :
              /\ s.outcomes[i].key = SaveS3Key(s.primaryKey, inputs.paths[i])
              /\ disk[inputs.paths[i]].kind = "missing" => ~s.outcomes[i].ok
              /\ s.outcomes[i].ok => s.outcomes[i].key \in DOMAIN store
        /\ s.success <=> \A i \in 1..Len(s.outcomes) : s.outcomes[i].ok

\* the first of two paths is not on disk, the second one was uploaded all the same,
\* and the save is not counted as successful
C11_Witness ==
    /\ SaveLoopOver
    /\ Len(inputs.paths) = 2
    /\ disk[inputs.paths[1]].kind = "missing"
    /\ ~s.outcomes[1].ok
    /\ s.outcomes[2].ok
    /\ SaveS3Key(s.primaryKey, inputs.paths[2]) \in DOMAIN store
    /\ ~s.success

\* C15: each storage-key derivation (key/basename(path) of restoreImpl, key:path of
\* saveImpl, and generateS3Key) gives different storage keys for different
\* (cache key, path) pairs.
C15_StorageKeyInjective ==
    (fn.op \in {"RestoreS3Key", "SaveS3Key", "generateS3Key"} /\ fn.x # fn.y) =>
        fn.result[1] # fn.result[2]

\* C19: in a job where one of the access key, secret key, region or bucket
\* settings is missing, no object-store request is ever sent: restoreImpl and
\* saveImpl stop at their first check, before the candidate loop, the upload loop
\* and any call of uploadToS3, and store and disk stay as they were.
C19_NoRequestWithoutSettings ==
    (\E v \in requiredEnvVars : ~env[v]) =>
        /\ requests = <<>>
        /\ r.pc \in {"idle", "begin", "done"}
        /\ s.pc \in {"idle", "begin", "done"}
        /\ up = UpIdle
        /\ r.allKeys = <<>>
        /\ s.outcomes = <<>>
        /\ \A p \in PathSet : disk[p].from = NoKey
        /\ \A k \in DOMAIN store : store[k] = StoredObject

\* only the bucket setting is missing; the store holds the entry and the workspace
\* holds a file to save, and both phases of the job are over without a request
C19_Witness ==
    /\ ~env["BP_CACHE_S3_BUCKET"]
    /\ \A v \in requiredEnvVars \ {"BP_CACHE_S3_BUCKET"} : env[v]
    /\ pc = "save"
    /\ r.pc = "done"
    /\ s.pc = "done"
    /\ RestoreS3Key(inputs.key, inputs.paths[1]) \in DOMAIN store
    /\ disk[inputs.paths[1]].kind = "file"
    /\ requests = <<>>

\* C20 as stated: isExactKeyMatch answers true exactly when the restored key is
\* present and the two keys are written on the same letters, whatever the case
\* and the accents of the letters.
C20_CaseAndAccentBlind ==
    fn.op = "isExactKeyMatch" =>
        (fn.result <=>
            /\ fn.y # NoKey
            /\ Len(fn.x) = Len(fn.y)
            /\ \A i \in 1..Len(fn.x) : BaseLetter(fn.x[i]) = BaseLetter(fn.y[i]))

\* C20 (amended): isExactKeyMatch answers true exactly when the restored key is
\* present and the two keys are equal up to the case of their letters: of the same
\* length, with the same letter and the same accent, or lack of one, at every
\* position. Keys that differ in one accent do not match.
C20_CaseBlindAccentAware ==
    fn.op = "isExactKeyMatch" =>
        (fn.result <=>
            /\ fn.y # NoKey
            /\ Len(fn.x) = Len(fn.y)
            /\ \A i \in 1..Len(fn.x) :
                  /\ BaseLetter(fn.x[i]) = BaseLetter(fn.y[i])
                  /\ HasAccent(fn.x[i]) <=> HasAccent(fn.y[i]))

\* two keys that differ in case at the first position and in case and accent at
\* the second have been compared, and do not match
C20_Witness ==
    /\ fn.op = "isExactKeyMatch"
    /\ fn.x = <<"A", "Ä">>
    /\ fn.y = <<"a", "a">>
    /\ fn.result = FALSE

\* C6: after an earlier job saved the requested paths under key K, a restore over
\* the same paths that meets no failure but "not found", whose candidate list holds K at
\* position c with no entry for the candidates before it, resolves to K: every
\* path is downloaded from candidate c, from the storage key the save wrote, and
\* the cache-hit output is "true" when c is the primary key and "false" otherwise.
C6_RestoreFindsWhatSaveWrote ==
    (pc = "restore" /\ RestoreRan /\ ~r.lookupOnly
        /\ \A i \in 1..Len(requests) : requests[i].err \in {"none", "NotFound"}) =>
        \A c \in 1..Len(r.allKeys) :
            (SavedUnder(r.allKeys[c]) /\ \A b \in 1..(c - 1) : NoEntryFor(r.allKeys[b])) =>
                /\ Restored(c)
                /\ \A i \in 1..Len(requests) :
                      requests[i].tag[1] = c =>
                          requests[i].key = SaveS3Key(r.allKeys[c], inputs.paths[requests[i].tag[2]])
                /\ out.cacheHit = IF c = 1 THEN "true" ELSE "false"
                /\ state.CacheMatchedKey # NoKey

\* the primary key failed for some requested path in this run
PrimaryFailed ==
    \E i \in 1..Len(requests) : requests[i].tag[1] = 1 /\ ~requests[i].ok

\* candidate c is the first fallback that restored every requested path
FirstRestoringFallback(c) ==
    /\ c \in 2..Len(r.allKeys)
    /\ Restored(c)
    /\ \A b \in 2..(c - 1) : ~Restored(b)

\* C21: in the restoreImpl of src/unnamed/part_000, when the primary key fails for
\* some requested path and a later fallback key restores every requested path, the
\* run does not take the miss branch (found stays true, nothing is marked failed)
\* and the matched key stored in the state is that fallback key, not the primary key.
C21_FallbackHitStoresFallbackKey ==
    (pc = "restoreByPath" /\ RestoreRan /\ ~r.lookupOnly /\ PrimaryFailed) =>
        \A c \in 2..Len(r.allKeys) :
            FirstRestoringFallback(c) =>
                /\ r.found
                /\ ~out.failed
                /\ state.CacheMatchedKey = r.allKeys[c]

\* C23: restoreImpl tries candidates in the order: the primary key first, then the
\* entries of the restore-keys input after its first entry, in their listed order
\* (the candidate at position c >= 2 is entry c of restore-keys); no position is
\* skipped or revisited, and the first restore-keys entry never stands at a
\* fallback position.
C23_CandidateOrder ==
    pc = "restore" =>
        /\ Len(requests) > 0 => requests[1].tag[1] = 1
        /\ \A i \in 1..Len(requests) :
              LET c == requests[i].tag[1]
                  cachePath == inputs.paths[requests[i].tag[2]]
              IN
              /\ c = 1 => requests[i].key = RestoreS3Key(PrimaryKeyOf(state, inputs), cachePath)
              /\ c > 1 => /\ c <= Len(inputs.restoreKeys)
                          /\ requests[i].key = RestoreS3Key(inputs.restoreKeys[c], cachePath)
              /\ i < Len(requests) => requests[i + 1].tag[1] \in {c, c + 1}

\* a run over restore-keys whose first entry is not the primary key went on to the
\* second candidate, the second entry, and never asked for anything under the first
\* entry
C23_Witness ==
    /\ pc = "restore"
    /\ RestoreRan
    /\ inputs.key = <<"v", "2">>
    /\ inputs.restoreKeys = <<<<"v", "1">>, <<"v", "2">>>>
    /\ \E i \in 1..Len(requests) : requests[i].tag[1] = 2
    /\ \A i \in 1..Len(requests) : requests[i].key[2] = "2"

----------------------------------------------------------------------------
(* Claims about what downloadFromS3 unpacks *)

\* C22: downloadFromS3 unpacks the decompressed payload exactly when uploadToS3
\* produced it from a directory: a saved regular file, whatever its content, is left
\* in place as the restored file and is not unpacked; a saved directory is unpacked.
C22_UnpacksExactlyDirectories ==
    (pc = "unpack" /\ fn.op = "downloadFromS3") =>
        /\ fn.result.unpacked <=> fn.x.isDirectory
        /\ ~fn.x.isDirectory => fn.result.restored = fn.x.content

====
